---- MODULE Spec2Model ----
(***************************************************************************)
(* Model of src/server/response_item.rs: the declaration items of the      *)
(* OpenSCAD language server (Param, ItemKind, Item), their parsing from a  *)
(* syntax tree and their memoized presentation views.                      *)
(*                                                                         *)
(* Text is modelled as a sequence of one-character strings, so that        *)
(* formatting, joining and searching are computed character by character.  *)
(* Option<T> is modelled as a sequence of length 0 (None) or 1 (Some).     *)
(***************************************************************************)
EXTENDS Integers, Sequences, FiniteSets, TLC

(* ---------------------------------------------------------------------- *)
(* Bounds                                                                  *)
(* ---------------------------------------------------------------------- *)
MaxParams == 2
MaxChildren == 3
MaxOnes == 2

(* ---------------------------------------------------------------------- *)
(* Option, text and integer helpers                                        *)
(* ---------------------------------------------------------------------- *)
None == <<>>
Some(v) == <<v>>
IsSome(o) == Len(o) = 1
IsNone(o) == Len(o) = 0
Unwrap(o) == o[1]

DigitChars == <<"0", "1", "2", "3", "4", "5", "6", "7", "8", "9">>

\* Display of an unsigned integer, as format!("{}", n) prints it
RECURSIVE FmtInt(_)
FmtInt(n) ==
    IF n < 10 THEN <<DigitChars[n + 1]>>
    ELSE FmtInt(n \div 10) \o <<DigitChars[(n % 10) + 1]>>

\* [String]::join(sep)
RECURSIVE Join(_, _)
Join(strs, sep) ==
    IF Len(strs) = 0 THEN <<>>
    ELSE IF Len(strs) = 1 THEN strs[1]
    ELSE strs[1] \o sep \o Join(Tail(strs), sep)

\* a & b on u16 values
RECURSIVE BitAnd(_, _)
BitAnd(a, b) ==
    IF a = 0 \/ b = 0 THEN 0
    ELSE (a % 2) * (b % 2) + 2 * BitAnd(a \div 2, b \div 2)

\* BuiltinFlags
IS_OPREATOR == 1
IGNORE_PARAM_NAME == 2

(* ---------------------------------------------------------------------- *)
(* Param::make_snippet                                                     *)
(* ---------------------------------------------------------------------- *)
\* the closure of .map(): i is the 0-based position among the kept params
RenderParam(i, p, ignore_name, args) ==
    IF ~args.ignore_default /\ IsSome(p.default)
    THEN p.name \o <<" ", "=", " ">> \o Unwrap(p.default)
    ELSE IF ignore_name
         THEN <<"$", "{">> \o FmtInt(i + 1) \o <<":">> \o p.name \o <<"}">>
         ELSE p.name \o <<" ", "=", " ", "$", "{">> \o FmtInt(i + 1)
                     \o <<":">> \o p.name \o <<"}">>

\* variant: the test of ignore_default inverted
KeepParam_Inverted(p, args) == IsNone(p.default) \/ args.ignore_default

\* the predicate of .filter()
KeepParam(p, args) == IsNone(p.default) \/ ~args.ignore_default

\* variant: .enumerate() before .filter(), positions of the whole list
Param_make_snippet_NumberBeforeFilter(params, ignore_name, args) ==
    LET idx == {i \in 1..Len(params) : KeepParam(params[i], args)}
        RECURSIVE From(_)
        From(i) ==
            IF i > Len(params) THEN <<>>
            ELSE IF i \in idx
                 THEN <<RenderParam(i - 1, params[i], ignore_name, args)>> \o From(i + 1)
                 ELSE From(i + 1)
    IN  Join(From(1), <<",", " ">>)

Param_make_snippet(params, ignore_name, args) ==
    LET kept == SelectSeq(params, LAMBDA p : KeepParam(p, args))
        rendered == [i \in 1..Len(kept) |->
                        RenderParam(i - 1, kept[i], ignore_name, args)]
    IN  Join(rendered, <<",", " ">>)

(* ---------------------------------------------------------------------- *)
(* Item views                                                              *)
(* ---------------------------------------------------------------------- *)
\* variant: the Function arm tests IS_OPREATOR as the Module arm does
Item_make_snippet_FunctionOperator(self, args) ==
    LET ignore_name == BitAnd(IGNORE_PARAM_NAME, self.flags) # 0
        params == Param_make_snippet(self.params, ignore_name, args)
        snippet ==
            CASE self.kind = "Variable" -> self.name
              [] self.kind = "Keyword" -> self.comp
              [] OTHER ->
                    IF BitAnd(IS_OPREATOR, self.flags) # 0
                    THEN self.name \o <<"(">> \o params \o <<")", " ", "$", "0">>
                    ELSE self.name \o <<"(">> \o params \o <<")", ";", "$", "0">>
    IN  [self |-> [self EXCEPT !.snippet = Some(snippet)], ret |-> snippet]

\* make_snippet stores the snippet it computed and returns it
Item_make_snippet(self, args) ==
    LET ignore_name == BitAnd(IGNORE_PARAM_NAME, self.flags) # 0
        snippet ==
            CASE self.kind = "Variable" -> self.name
              [] self.kind = "Function" ->
                    self.name \o <<"(">>
                        \o Param_make_snippet(self.params, ignore_name, args)
                        \o <<")", ";", "$", "0">>
              [] self.kind = "Keyword" -> self.comp
              [] self.kind = "Module" ->
                    LET params == Param_make_snippet(self.params, ignore_name, args)
                    IN  IF BitAnd(IS_OPREATOR, self.flags) # 0
                        THEN self.name \o <<"(">> \o params \o <<")", " ", "$", "0">>
                        ELSE self.name \o <<"(">> \o params \o <<")", ";", "$", "0">>
    IN  [self |-> [self EXCEPT !.snippet = Some(snippet)], ret |-> snippet]

\* the closure format_params of make_label
format_params(params) ==
    Join([i \in 1..Len(params) |->
            IF IsSome(params[i].default)
            THEN params[i].name \o <<"=">> \o Unwrap(params[i].default)
            ELSE params[i].name],
         <<",", " ">>)

\* variant: the Keyword arm returns the completion text, as make_snippet does
Item_make_label_KeywordComp(self) ==
    CASE self.kind = "Variable" -> self.name
      [] self.kind = "Keyword" -> self.comp
      [] OTHER -> self.name \o <<"(">> \o format_params(self.params) \o <<")">>

Item_make_label(self) ==
    CASE self.kind = "Variable" -> self.name
      [] self.kind = "Function" ->
            self.name \o <<"(">> \o format_params(self.params) \o <<")">>
      [] self.kind = "Keyword" -> self.name
      [] self.kind = "Module" ->
            self.name \o <<"(">> \o format_params(self.params) \o <<")">>

\* the character U+0060 (grave accent), which a TLA+ string cannot hold
Backtick == "GRAVE"
FenceOpen == <<Backtick, Backtick, Backtick, "s", "c", "a", "d", "\n">>
FenceClose == <<"\n", Backtick, Backtick, Backtick>>
DocSep == <<"\n", "-", "-", "-", "\n", "\n">>

Item_make_hover(self) ==
    LET label0 == IF IsSome(self.label) THEN Unwrap(self.label)
                  ELSE Item_make_label(self)
        label1 ==
            CASE self.kind = "Function" ->
                    FenceOpen \o <<"f", "u", "n", "c", "t", "i", "o", "n", " ">>
                        \o label0 \o FenceClose
              [] self.kind = "Module" ->
                    FenceOpen \o <<"m", "o", "d", "u", "l", "e", " ">>
                        \o label0 \o FenceClose
              [] OTHER -> FenceOpen \o label0 \o FenceClose
    IN  IF IsSome(self.doc)
        THEN IF self.is_builtin
             THEN label1 \o DocSep \o Unwrap(self.doc) \o <<"\n">>
             ELSE label1 \o DocSep \o <<"<", "p", "r", "e", ">", "\n">>
                         \o Unwrap(self.doc)
                         \o <<"\n", "<", "/", "p", "r", "e", ">", "\n">>
        ELSE label1

\* variant: the computed snippet is stored in the field label as well
Item_get_snippet_IntoLabel(self, args) ==
    LET made == Item_make_snippet(self, args)
        s1 == IF IsNone(self.snippet)
              THEN [made.self EXCEPT !.label = Some(made.ret)]
              ELSE self
    IN  [self |-> s1, ret |-> Unwrap(s1.snippet)]

Item_get_snippet(self, args) ==
    LET s1 == IF IsNone(self.snippet) THEN Item_make_snippet(self, args).self
              ELSE self
    IN  [self |-> s1, ret |-> Unwrap(s1.snippet)]

\* variant: the label computed for the hover is memoized too
Item_get_hover_StoresLabel(self) ==
    LET s1 == IF IsNone(self.hover)
              THEN [self EXCEPT !.hover = Some(Item_make_hover(self)),
                                !.label = Some(Item_make_label(self))]
              ELSE self
    IN  [self |-> s1, ret |-> Unwrap(s1.hover)]

Item_get_hover(self) ==
    LET s1 == IF IsNone(self.hover)
              THEN [self EXCEPT !.hover = Some(Item_make_hover(self))]
              ELSE self
    IN  [self |-> s1, ret |-> Unwrap(s1.hover)]

Item_get_label(self) ==
    LET s1 == IF IsNone(self.label)
              THEN [self EXCEPT !.label = Some(Item_make_label(self))]
              ELSE self
    IN  [self |-> s1, ret |-> Unwrap(s1.label)]

(* ---------------------------------------------------------------------- *)
(* Syntax nodes (tree_sitter::Node with the text and range it covers)      *)
(* ---------------------------------------------------------------------- *)
\* field: the field name the node has in its parent, "" if none
MkNode(kind, field, named, text, range, children) ==
    [kind |-> kind, field |-> field, named |-> named, text |-> text,
     range |-> range, children |-> children]

\* Node::child_by_field_name: the first child with that field name
child_by_field_name(n, f) ==
    LET idx == {i \in 1..Len(n.children) : n.children[i].field = f}
    IN  IF idx = {} THEN None
        ELSE Some(n.children[CHOOSE i \in idx : \A j \in idx : i <= j])

\* Node::named_child(0): the first named child
named_child0(n) ==
    LET idx == {i \in 1..Len(n.children) : n.children[i].named}
    IN  IF idx = {} THEN None
        ELSE Some(n.children[CHOOSE i \in idx : \A j \in idx : i <= j])

\* node.children(..).last()
last_child(n) ==
    IF Len(n.children) = 0 THEN None ELSE Some(n.children[Len(n.children)])

(* ---------------------------------------------------------------------- *)
(* Param::parse_declaration                                                *)
(* ---------------------------------------------------------------------- *)
\* variant: a special_variable child yields a parameter
ParamOfChild_Special(child) ==
    IF child.kind \in {"identifier", "special_variable"}
    THEN Some([name |-> child.text, default |-> None, range |-> child.range])
    ELSE None

\* the closure of .filter_map()
ParamOfChild(child) ==
    CASE child.kind = "identifier" ->
            Some([name |-> child.text, default |-> None, range |-> child.range])
      [] child.kind = "assignment" ->
            LET left == child_by_field_name(child, "left")
                right == child_by_field_name(child, "right")
            IN  IF IsNone(left) THEN None
                ELSE IF IsNone(right) THEN None
                ELSE Some([name |-> Unwrap(left).text,
                           default |-> Some(Unwrap(right).text),
                           range |-> Unwrap(right).range])
      [] child.kind = "special_variable" -> None
      [] OTHER -> None

RECURSIVE FilterMapParams(_)
FilterMapParams(children) ==
    IF Len(children) = 0 THEN <<>>
    ELSE ParamOfChild(Head(children)) \o FilterMapParams(Tail(children))

Param_parse_declaration(n) == FilterMapParams(n.children)

(* ---------------------------------------------------------------------- *)
(* Flag marker                                                             *)
(* ---------------------------------------------------------------------- *)
MarkerHead ==
    <<"b", "u", "i", "l", "t", "i", "n", "_", "f", "l", "a", "g", "s", "(">>

\* the number of digits the pattern asks for: [01]{16}
FlagDigits == 16

\* variant: the pattern [0-9]{16}
FlagReMatchAt_AnyDigit(text, i) ==
    /\ i + Len(MarkerHead) + FlagDigits <= Len(text)
    /\ SubSeq(text, i, i + Len(MarkerHead) - 1) = MarkerHead
    /\ \A j \in (i + Len(MarkerHead))..(i + Len(MarkerHead) + FlagDigits - 1) :
            \E d \in 1..10 : text[j] = DigitChars[d]
    /\ text[i + Len(MarkerHead) + FlagDigits] = ")"

\* does builtin_flags\((?P<flags>[01]{16})\) match text at position i
FlagReMatchAt(text, i) ==
    /\ i + Len(MarkerHead) + FlagDigits <= Len(text)
    /\ SubSeq(text, i, i + Len(MarkerHead) - 1) = MarkerHead
    /\ \A j \in (i + Len(MarkerHead))..(i + Len(MarkerHead) + FlagDigits - 1) :
            text[j] \in {"0", "1"}
    /\ text[i + Len(MarkerHead) + FlagDigits] = ")"

\* Regex::captures: the leftmost match; the value is the group "flags"
RECURSIVE FlagReSearch(_, _)
FlagReSearch(text, i) ==
    IF i > Len(text) THEN None
    ELSE IF FlagReMatchAt(text, i)
         THEN Some(SubSeq(text, i + Len(MarkerHead),
                          i + Len(MarkerHead) + FlagDigits - 1))
         ELSE FlagReSearch(text, i + 1)

FLAG_RE_captures(text) == FlagReSearch(text, 1)

U16Max == 65535

\* u16::from_str_radix(s, 2): Ok(value), or Err on an empty string, on a
\* character that is no binary digit and on a value above u16::MAX
RECURSIVE FromStrRadixAcc(_, _)
FromStrRadixAcc(s, acc) ==
    IF Len(s) = 0 THEN [ok |-> TRUE, val |-> acc]
    ELSE IF Head(s) \notin {"0", "1"} THEN [ok |-> FALSE, val |-> 0]
    ELSE LET d == IF Head(s) = "1" THEN 1 ELSE 0
             nxt == acc * 2 + d
         IN  IF nxt > U16Max THEN [ok |-> FALSE, val |-> 0]
             ELSE FromStrRadixAcc(Tail(s), nxt)

\* variant: the value masked to the two known bits
u16_from_str_radix2_Masked(s) ==
    IF Len(s) = 0 THEN [ok |-> FALSE, val |-> 0]
    ELSE [ok |-> FromStrRadixAcc(s, 0).ok, val |-> FromStrRadixAcc(s, 0).val % 4]

u16_from_str_radix2(s) ==
    IF Len(s) = 0 THEN [ok |-> FALSE, val |-> 0] ELSE FromStrRadixAcc(s, 0)

\* flags of a declaration from its designated node (None if it has none);
\* .unwrap() of an Err panics
FlagsOf(designated) ==
    IF IsSome(designated)
    THEN LET cap == FLAG_RE_captures(Unwrap(designated).text)
         IN  IF IsSome(cap)
             THEN LET r == u16_from_str_radix2(Unwrap(cap))
                  IN  [panic |-> ~r.ok, val |-> r.val]
             ELSE [panic |-> FALSE, val |-> 0]
    ELSE [panic |-> FALSE, val |-> 0]

\* module_declaration: the first named child of the field "body"
ModuleFlagNode(n) ==
    LET body == child_by_field_name(n, "body")
    IN  IF IsSome(body) THEN named_child0(Unwrap(body)) ELSE None

\* function_declaration: the last child
FunctionFlagNode(n) == last_child(n)

(* ---------------------------------------------------------------------- *)
(* Item::parse                                                             *)
(* ---------------------------------------------------------------------- *)
\* Item { .. ..Default::default() }
ParsedItem(name, kind, flags, params, range) ==
    [name |-> name, kind |-> kind, flags |-> flags, params |-> params,
     comp |-> <<>>, range |-> range, url |-> None, is_builtin |-> FALSE,
     doc |-> None, hover |-> None, label |-> None, snippet |-> None]

\* the closure extract_name
extract_name(n, f) ==
    LET child == child_by_field_name(n, f)
    IN  IF IsSome(child) THEN Some(Unwrap(child).text) ELSE None

ParamsField(n) ==
    LET params == child_by_field_name(n, "parameters")
    IN  IF IsSome(params) THEN Param_parse_declaration(Unwrap(params)) ELSE <<>>

\* outcome "some": Some(item); "none": None; "panic": the call panicked
Item_parse(n) ==
    CASE n.kind = "module_declaration" ->
            LET flags == FlagsOf(ModuleFlagNode(n))
                name == extract_name(n, "name")
            IN  IF flags.panic THEN [outcome |-> "panic"]
                ELSE IF IsNone(name) THEN [outcome |-> "none"]
                ELSE [outcome |-> "some",
                      item |-> ParsedItem(Unwrap(name), "Module", flags.val,
                                          ParamsField(n), n.range)]
      [] n.kind = "function_declaration" ->
            LET flags == FlagsOf(FunctionFlagNode(n))
                name == extract_name(n, "name")
            IN  IF flags.panic THEN [outcome |-> "panic"]
                ELSE IF IsNone(name) THEN [outcome |-> "none"]
                ELSE [outcome |-> "some",
                      item |-> ParsedItem(Unwrap(name), "Function", flags.val,
                                          ParamsField(n), n.range)]
      [] n.kind = "assignment" ->
            LET name == extract_name(n, "left")
            IN  IF IsNone(name) THEN [outcome |-> "none"]
                ELSE [outcome |-> "some",
                      item |-> ParsedItem(Unwrap(name), "Variable", 0, <<>>,
                                          n.range)]
      [] OTHER -> [outcome |-> "none"]

(* ---------------------------------------------------------------------- *)
(* Items the view synthesizer is applied to                                *)
(* ---------------------------------------------------------------------- *)
\* Cli, of which this file reads the field ignore_default only
Cli == [ignore_default : BOOLEAN]

ItemName == <<"n", "a", "m", "e">>
KeywordName == <<"i", "f">>
KeywordComp == <<"i", "f", " ", "(", "$", "0", ")">>
DocText == <<"d", "o", "c">>
\* the text of the string literal "$0", a legal default expression
DollarDefault == <<"\"", "$", "0", "\"">>

\* struct Param
MkParam(name, default, range) ==
    [name |-> name, default |-> default, range |-> range]

ParamOptions ==
    { MkParam(<<"a">>, None, 1),
      MkParam(<<"c">>, None, 2),
      MkParam(<<"b">>, Some(<<"5">>), 3),
      MkParam(<<"b">>, Some(DollarDefault), 4) }

ParamLists == UNION { [1..k -> ParamOptions] : k \in 0..MaxParams }

\* flags values: the four combinations of the two known bits, and one
\* with all fourteen unused bits set
FlagValues == {0, 1, 2, 3, 65532}

\* struct Item; flags and params are the payload of kind Function/Module,
\* comp the payload of kind Keyword
MkItem(name, kind, flags, params, comp, range, is_builtin, doc) ==
    [name |-> name, kind |-> kind, flags |-> flags, params |-> params,
     comp |-> comp, range |-> range, url |-> None, is_builtin |-> is_builtin,
     doc |-> doc, hover |-> None, label |-> None, snippet |-> None]

Items ==
    { MkItem(ItemName, k, f, ps, <<>>, 0, FALSE, None) :
        k \in {"Function", "Module"}, f \in FlagValues, ps \in ParamLists }
    \cup
    { MkItem(ItemName, k, 0, <<>>, <<>>, 0, b, d) :
        k \in {"Variable", "Function", "Module"}, b \in BOOLEAN,
        d \in {None, Some(DocText)} }
    \cup
    { MkItem(KeywordName, "Keyword", 0, <<>>, KeywordComp, 0, b, d) :
        b \in BOOLEAN, d \in {None, Some(DocText)} }

(* ---------------------------------------------------------------------- *)
(* State                                                                   *)
(* ---------------------------------------------------------------------- *)
VARIABLES
    item,    \* the Item the views are computed on
    last,    \* the last call on item: operation, configuration, result, and
             \* whether seen already held a result of the same call
    seen,    \* per memoized accessor and configuration: the result of its
             \* first call since the item was built or make_snippet was
             \* last called directly
    node,    \* the syntax node handed to Item::parse
    parsed,  \* the outcome of Item::parse
    pc       \* position of the parsing pass

vars == <<item, last, seen, node, parsed, pc>>

AccessorCalls ==
    { <<"get_snippet", Some(c)>> : c \in Cli }
        \cup { <<"get_label", None>>, <<"get_hover", None>> }

NoCalls == [k \in AccessorCalls |-> None]

Note(s, k, ret) == IF IsNone(s[k]) THEN [s EXCEPT ![k] = Some(ret)] ELSE s

NoNode == [kind |-> "none", children |-> <<>>]

Init ==
    /\ item \in Items
    /\ last = [op |-> "new", args |-> None, ret |-> <<>>, again |-> FALSE]
    /\ seen = NoCalls
    /\ node = NoNode
    /\ parsed = [outcome |-> "idle"]
    /\ pc = "views"

GetSnippet ==
    \E c \in Cli :
        LET r == Item_get_snippet(item, c) IN
        /\ item' = r.self
        /\ last' = [op |-> "get_snippet", args |-> Some(c), ret |-> r.ret,
                    again |-> IsSome(seen[<<"get_snippet", Some(c)>>])]
        /\ seen' = Note(seen, <<"get_snippet", Some(c)>>, r.ret)
        /\ UNCHANGED <<node, parsed, pc>>

GetLabel ==
    LET r == Item_get_label(item) IN
    /\ item' = r.self
    /\ last' = [op |-> "get_label", args |-> None, ret |-> r.ret,
                again |-> IsSome(seen[<<"get_label", None>>])]
    /\ seen' = Note(seen, <<"get_label", None>>, r.ret)
    /\ UNCHANGED <<node, parsed, pc>>

GetHover ==
    LET r == Item_get_hover(item) IN
    /\ item' = r.self
    /\ last' = [op |-> "get_hover", args |-> None, ret |-> r.ret,
                again |-> IsSome(seen[<<"get_hover", None>>])]
    /\ seen' = Note(seen, <<"get_hover", None>>, r.ret)
    /\ UNCHANGED <<node, parsed, pc>>

MakeSnippet ==
    \E c \in Cli :
        LET r == Item_make_snippet(item, c) IN
        /\ item' = r.self
        /\ last' = [op |-> "make_snippet", args |-> Some(c), ret |-> r.ret,
                    again |-> FALSE]
        /\ seen' = NoCalls
        /\ UNCHANGED <<node, parsed, pc>>

MakeLabel ==
    /\ last' = [op |-> "make_label", args |-> None,
                ret |-> Item_make_label(item), again |-> FALSE]
    /\ UNCHANGED <<item, seen, node, parsed, pc>>

MakeHover ==
    /\ last' = [op |-> "make_hover", args |-> None,
                ret |-> Item_make_hover(item), again |-> FALSE]
    /\ UNCHANGED <<item, seen, node, parsed, pc>>

Next ==
    \/ GetSnippet
    \/ GetLabel
    \/ GetHover
    \/ MakeSnippet
    \/ MakeLabel
    \/ MakeHover

Spec == Init /\ [][Next]_vars

(* ---------------------------------------------------------------------- *)
(* Syntax nodes Item::parse is applied to                                  *)
(* ---------------------------------------------------------------------- *)
Leaf(kind, field, named, text, range) ==
    MkNode(kind, field, named, text, range, <<>>)

\* digit strings with at most MaxOnes ones or at most MaxOnes zeros
FewPositions ==
    { {f[k] : k \in 1..MaxOnes} \ {0} : f \in [1..MaxOnes -> 0..FlagDigits] }

BitStrings ==
    { [i \in 1..FlagDigits |-> IF i \in S THEN "1" ELSE "0"] : S \in FewPositions }
    \cup
    { [i \in 1..FlagDigits |-> IF i \in S THEN "0" ELSE "1"] : S \in FewPositions }

Ones(n) == [i \in 1..n |-> "1"]
WrapMarker(digits) == MarkerHead \o digits \o <<")">>
Bits3 == [i \in 1..FlagDigits |-> IF i >= FlagDigits - 1 THEN "1" ELSE "0"]
Bits1 == [i \in 1..FlagDigits |-> IF i = FlagDigits THEN "1" ELSE "0"]
CallText == <<"c", "u", "b", "e", "(", ")", ";">>

OddTexts ==
    { CallText,
      WrapMarker(Ones(FlagDigits - 1)),
      WrapMarker(Ones(FlagDigits + 1)),
      WrapMarker([Bits3 EXCEPT ![2] = "2"]),
      MarkerHead \o Bits3,
      <<"B">> \o Tail(WrapMarker(Bits3)),
      WrapMarker(Ones(FlagDigits - 1)) \o WrapMarker(Bits1),
      WrapMarker(Bits3) \o <<" ">> \o WrapMarker(Bits1),
      MarkerHead \o WrapMarker(Bits1) }

FlagTexts ==
    { WrapMarker(d) : d \in BitStrings }
    \cup { <<"/", "/", " ">> \o WrapMarker(d) \o <<";">> : d \in BitStrings }
    \cup OddTexts

NameLeaf == Leaf("identifier", "name", TRUE, ItemName, 2)
LeftLeaf == Leaf("identifier", "left", TRUE, <<"v">>, 3)
ParamList(children) ==
    MkNode("parameters_declaration", "parameters", TRUE, <<"(", ")">>, 4, children)
Stmt(text, range) == Leaf("expression_statement", "", TRUE, text, range)
Body(stmts) ==
    MkNode("union_block", "body", TRUE,
           <<"{">> \o Join([i \in 1..Len(stmts) |-> stmts[i].text], <<" ">>) \o <<"}">>,
           5,
           <<Leaf("{", "", FALSE, <<"{">>, 6)>> \o stmts
                \o <<Leaf("}", "", FALSE, <<"}">>, 7)>>)

\* children of a parameter list
PIdent == Leaf("identifier", "", TRUE, <<"a">>, 11)
PAssign ==
    MkNode("assignment", "", TRUE, <<"b", " ", "=", " ", "5">>, 20,
           << Leaf("identifier", "left", TRUE, <<"b">>, 21),
              Leaf("=", "", FALSE, <<"=">>, 22),
              Leaf("number", "right", TRUE, <<"5">>, 23) >>)
PAssignNoRight ==
    MkNode("assignment", "", TRUE, <<"c", " ", "=">>, 30,
           << Leaf("identifier", "left", TRUE, <<"c">>, 31),
              Leaf("=", "", FALSE, <<"=">>, 32) >>)
PAssignNoLeft ==
    MkNode("assignment", "", TRUE, <<"=", " ", "7">>, 40,
           << Leaf("=", "", FALSE, <<"=">>, 42),
              Leaf("number", "right", TRUE, <<"7">>, 43) >>)
PSpecial == Leaf("special_variable", "", TRUE, <<"$", "f", "n">>, 51)
PComma == Leaf(",", "", FALSE, <<",">>, 61)

ChildOptions == {PIdent, PAssign, PAssignNoRight, PAssignNoLeft, PSpecial, PComma}
ChildLists == UNION { [1..k -> ChildOptions] : k \in 0..MaxChildren }

NodeKinds ==
    {"module_declaration", "function_declaration", "assignment", "module_call"}
DeclKinds == {"module_declaration", "function_declaration"}

Decl(kind, children) ==
    MkNode(kind, "", TRUE, <<"d", "e", "c", "l">>, 1, children)

\* every kind with and without the fields name, left, parameters
FieldNodes ==
    { Decl(k, nm \o lf \o ps \o <<Body(<<Stmt(WrapMarker(Bits3), 8)>>)>>) :
        k \in NodeKinds, nm \in {<<>>, <<NameLeaf>>}, lf \in {<<>>, <<LeftLeaf>>},
        ps \in {<<>>, <<ParamList(<<PIdent>>)>>} }
    \cup { Decl(k, <<>>) : k \in NodeKinds }

\* declarations whose designated node holds each of the flag texts
FlagNodes ==
    { Decl(k, <<NameLeaf, ParamList(<<>>), Body(<<Stmt(t, 8)>>)>>) :
        k \in DeclKinds, t \in FlagTexts }
    \cup
    \* no body; an empty body; the marker in the second statement only;
    \* the marker in a child that is not the last one
    { Decl(k, <<NameLeaf, ParamList(<<>>)>> \o rest) :
        k \in DeclKinds,
        rest \in { <<>>,
                   <<Body(<<>>)>>,
                   <<Body(<<Stmt(CallText, 8), Stmt(WrapMarker(Bits3), 9)>>)>>,
                   <<Body(<<Stmt(WrapMarker(Bits3), 8)>>),
                     Leaf(";", "", FALSE, <<";">>, 10)>> } }

\* declarations with each of the parameter lists
ParamNodes ==
    { Decl(k, <<NameLeaf, ParamList(cs), Body(<<Stmt(CallText, 8)>>)>>) :
        k \in DeclKinds, cs \in ChildLists }

Nodes == FieldNodes \cup FlagNodes \cup ParamNodes

(* ---------------------------------------------------------------------- *)
(* The parsing pass                                                        *)
(* ---------------------------------------------------------------------- *)
InitParse ==
    /\ node \in Nodes
    /\ parsed = [outcome |-> "idle"]
    /\ pc = "start"
    /\ item = MkItem(<<>>, "Variable", 0, <<>>, <<>>, 0, FALSE, None)
    /\ last = [op |-> "new", args |-> None, ret |-> <<>>, again |-> FALSE]
    /\ seen = NoCalls

Parse ==
    /\ pc = "start"
    /\ parsed' = Item_parse(node)
    /\ pc' = "done"
    /\ UNCHANGED <<item, last, seen, node>>

NextParse == Parse

SpecParse == InitParse /\ [][NextParse]_vars

(* ---------------------------------------------------------------------- *)
(* Vocabulary of the properties                                            *)
(* ---------------------------------------------------------------------- *)
StartsWith(s, pre) == Len(pre) <= Len(s) /\ SubSeq(s, 1, Len(pre)) = pre
EndsWith(s, suf) ==
    Len(suf) <= Len(s) /\ SubSeq(s, Len(s) - Len(suf) + 1, Len(s)) = suf
Contains(s, sub) ==
    \E i \in 1..(Len(s) - Len(sub) + 1) : SubSeq(s, i, i + Len(sub) - 1) = sub

IsCallable(it) == it.kind \in {"Function", "Module"}
\* the call on item that led to the current state
Called(op) == last.op = op
CalledWith(op, c) == last.op = op /\ last.args = Some(c)

\* name(ARGS)XXX$0 -> ARGS
ArgsOf(snippet, name) == SubSeq(snippet, Len(name) + 2, Len(snippet) - 4)

Placeholder(i, text) == <<"$", "{", DigitChars[i + 1], ":">> \o text \o <<"}">>
PlainEntry(p) == p.name \o <<" ", "=", " ">> \o Unwrap(p.default)
NamedEntry(i, p) == p.name \o <<" ", "=", " ">> \o Placeholder(i, p.name)

\* parameter p, the i-th of the parameters kept, appears in form f
EntryForm(f, i, p) ==
    IF f = 1 /\ IsSome(p.default) THEN PlainEntry(p)
    ELSE IF f = 2 THEN NamedEntry(i, p)
    ELSE Placeholder(i, p.name)

\* args lists exactly the parameters kept, each in one of its forms
ListsExactly(args, kept) ==
    \E f \in [1..Len(kept) -> 1..3] :
        args = Join([i \in 1..Len(kept) |-> EntryForm(f[i], i, kept[i])],
                    <<",", " ">>)

ParamA == MkParam(<<"a">>, None, 1)
ParamB5 == MkParam(<<"b">>, Some(<<"5">>), 3)
ParamC == MkParam(<<"c">>, None, 2)
IgnoreDefault(b) == [ignore_default |-> b]

(* ---------------------------------------------------------------------- *)
(* C1: once one of the memo fields snippet, label, hover holds a value,    *)
(* no call of get_snippet, get_label, get_hover, make_snippet, make_label  *)
(* or make_hover, under any configuration, changes that field.             *)
(* ---------------------------------------------------------------------- *)
C1_MemoNeverChanges ==
    [][ /\ IsSome(item.snippet) => item'.snippet = item.snippet
        /\ IsSome(item.label) => item'.label = item.label
        /\ IsSome(item.hover) => item'.hover = item.hover ]_vars

(* ---------------------------------------------------------------------- *)
(* C2 as stated: in the snippet of a Function or Module a parameter        *)
(* without a default always appears in ARGS and one with a default appears *)
(* iff "ignore defaults" is true; for parameters a, b = 5 with             *)
(* IGNORE_PARAM_NAME, false gives name(${1:a});$0 and true keeps "b = 5".  *)
(* ---------------------------------------------------------------------- *)
C2_DefaultedKeptIffIgnoreDefaults ==
    \A c \in Cli :
        (CalledWith("make_snippet", c) /\ IsCallable(item)) =>
            /\ ListsExactly(ArgsOf(last.ret, item.name),
                            SelectSeq(item.params,
                                      LAMBDA p : IsNone(p.default) \/ c.ignore_default))
            /\ (item.params = <<ParamA, ParamB5>> /\ item.flags = 2) =>
                    IF c.ignore_default
                    THEN Contains(last.ret, <<"b", " ", "=", " ", "5">>)
                    ELSE last.ret = ItemName \o <<"(">> \o Placeholder(1, <<"a">>)
                                        \o <<")", ";", "$", "0">>

(* ---------------------------------------------------------------------- *)
(* C2 as amended: a parameter without a default always appears in ARGS and *)
(* one with a default appears iff "ignore defaults" is false; for          *)
(* parameters a, b = 5 with IGNORE_PARAM_NAME, false gives                 *)
(* name(${1:a}, b = 5);$0 and true gives name(${1:a});$0.                  *)
(* ---------------------------------------------------------------------- *)
C2_DefaultedKeptIffNotIgnoreDefaults ==
    \A c \in Cli :
        (CalledWith("make_snippet", c) /\ IsCallable(item)) =>
            /\ ListsExactly(ArgsOf(last.ret, item.name),
                            SelectSeq(item.params,
                                      LAMBDA p : IsNone(p.default) \/ ~c.ignore_default))
            /\ (item.params = <<ParamA, ParamB5>> /\ item.flags = 2) =>
                    IF c.ignore_default
                    THEN last.ret = ItemName \o <<"(">> \o Placeholder(1, <<"a">>)
                                        \o <<")", ";", "$", "0">>
                    ELSE last.ret = ItemName \o <<"(">> \o Placeholder(1, <<"a">>)
                                        \o <<",", " ", "b", " ", "=", " ", "5">>
                                        \o <<")", ";", "$", "0">>

C2_Witness ==
    /\ CalledWith("make_snippet", IgnoreDefault(TRUE))
    /\ item.kind = "Function"
    /\ item.params = <<ParamA, ParamB5>>
    /\ item.flags = 2
    /\ item.snippet = Some(ItemName \o <<"(">> \o Placeholder(1, <<"a">>)
                                    \o <<")", ";", "$", "0">>)

(* ---------------------------------------------------------------------- *)
(* C3: the flags of a Module or Function item produced by Item::parse are  *)
(* the binary value, leftmost digit most significant and all 16 bits kept, *)
(* of the digits of the first marker builtin_flags( + 16 digits of 0/1 + ) *)
(* in the designated node's text, and 0 if that node does not exist or its *)
(* text holds no such marker.                                              *)
(* ---------------------------------------------------------------------- *)
MarkerAt(text, i) ==
    /\ i + 30 <= Len(text)
    /\ SubSeq(text, i, i + 13) = MarkerHead
    /\ \A k \in 1..16 : text[i + 13 + k] = "0" \/ text[i + 13 + k] = "1"
    /\ text[i + 30] = ")"

RECURSIVE Pow2(_)
Pow2(n) == IF n = 0 THEN 1 ELSE 2 * Pow2(n - 1)

RECURSIVE WeightedSum(_, _, _)
WeightedSum(text, i, k) ==
    IF k = 0 THEN 0
    ELSE (IF text[i + 13 + k] = "1" THEN Pow2(16 - k) ELSE 0)
            + WeightedSum(text, i, k - 1)

MarkerValue(designated) ==
    IF IsNone(designated) THEN 0
    ELSE LET text == Unwrap(designated).text
             at == {i \in 1..Len(text) : MarkerAt(text, i)}
         IN  IF at = {} THEN 0
             ELSE WeightedSum(text, CHOOSE i \in at : \A j \in at : i <= j, 16)

DesignatedNode(n) ==
    IF n.kind = "module_declaration" THEN ModuleFlagNode(n) ELSE FunctionFlagNode(n)

ParsedDecl ==
    pc = "done" /\ parsed.outcome = "some" /\ IsCallable(parsed.item)

C3_FlagsAreMarkerValue ==
    ParsedDecl => parsed.item.flags = MarkerValue(DesignatedNode(node))

C3_Witness ==
    /\ ParsedDecl
    /\ parsed.item.kind = "Module"
    /\ parsed.item.flags = 65533
    /\ StartsWith(Unwrap(DesignatedNode(node)).text, <<"/", "/", " ">>)

(* ---------------------------------------------------------------------- *)
(* C4: calling the same memoized accessor (get_snippet, get_label,         *)
(* get_hover) again with the same configuration returns the string its     *)
(* first call returned, whatever accessors were called in between.         *)
(* ---------------------------------------------------------------------- *)
C4_AccessorRepeats ==
    <<last.op, last.args>> \in AccessorCalls =>
        seen[<<last.op, last.args>>] = Some(last.ret)

C4_Witness ==
    /\ CalledWith("get_snippet", IgnoreDefault(FALSE))
    /\ last.again
    /\ IsSome(seen[<<"get_snippet", Some(IgnoreDefault(TRUE))>>])
    /\ IsSome(seen[<<"get_label", None>>])
    /\ IsSome(seen[<<"get_hover", None>>])
    /\ item.params = <<ParamA, ParamB5>>

(* ---------------------------------------------------------------------- *)
(* C5 as stated: for every Item the string returned by get_label or        *)
(* make_label contains neither ${ nor $0.                                  *)
(* ---------------------------------------------------------------------- *)
Markup == { <<"$", "{">>, <<"$", "0">> }

C5_LabelHasNoMarkup ==
    (Called("get_label") \/ Called("make_label")) =>
        \A m \in Markup : ~Contains(last.ret, m)

(* ---------------------------------------------------------------------- *)
(* C5 as amended: the string returned by get_label or make_label contains  *)
(* ${ or $0 only where the item's name, a parameter's name or a            *)
(* parameter's default text contains it.                                   *)
(* ---------------------------------------------------------------------- *)
C5_LabelAddsNoMarkup ==
    (Called("get_label") \/ Called("make_label")) =>
        \A m \in Markup :
            Contains(last.ret, m) =>
                \/ Contains(item.name, m)
                \/ \E i \in 1..Len(item.params) :
                        \/ Contains(item.params[i].name, m)
                        \/ /\ IsSome(item.params[i].default)
                           /\ Contains(Unwrap(item.params[i].default), m)

C5_Witness ==
    /\ Called("get_label")
    /\ item.kind = "Module"
    /\ Len(item.params) = 2
    /\ Contains(last.ret, <<"$", "0">>)
    /\ IsSome(item.snippet)

(* ---------------------------------------------------------------------- *)
(* C6: the snippet of a Module is name(ARGS) $0 exactly when bit 0 of its  *)
(* flags is set and name(ARGS);$0 otherwise; the snippet of a Function is  *)
(* name(ARGS);$0 for every flags value, name();$0 without parameters.      *)
(* ---------------------------------------------------------------------- *)
C6_OperatorForm ==
    \A c \in Cli :
        (CalledWith("make_snippet", c) /\ IsCallable(item)) =>
            LET call == item.name \o <<"(">>
                            \o Param_make_snippet(item.params,
                                                  (item.flags \div 2) % 2 = 1, c)
                            \o <<")">>
                spaced == call \o <<" ", "$", "0">>
                ended == call \o <<";", "$", "0">>
            IN  /\ item.kind = "Module" =>
                    /\ (last.ret = spaced) <=> (item.flags % 2 = 1)
                    /\ (last.ret = ended) <=> (item.flags % 2 = 0)
                /\ item.kind = "Function" => last.ret = ended
                /\ (item.kind = "Function" /\ item.params = <<>>) =>
                        last.ret = item.name \o <<"(", ")", ";", "$", "0">>

C6_Witness ==
    /\ Called("make_snippet")
    /\ item.kind = "Module"
    /\ item.flags = 3
    /\ item.params = <<ParamA>>
    /\ last.ret = ItemName \o <<"(">> \o Placeholder(1, <<"a">>)
                           \o <<")", " ", "$", "0">>

(* ---------------------------------------------------------------------- *)
(* C7: Item::parse never fails; it yields an Item exactly for a            *)
(* module_declaration or function_declaration with a "name" field and an   *)
(* assignment with a "left" field; an absent "parameters" field gives no   *)
(* parameters and an absent or malformed marker gives flags = 0.           *)
(* ---------------------------------------------------------------------- *)
HasField(n, f) == \E i \in 1..Len(n.children) : n.children[i].field = f

HasMarker(designated) ==
    /\ IsSome(designated)
    /\ \E i \in 1..Len(Unwrap(designated).text) :
            MarkerAt(Unwrap(designated).text, i)

C7_ParseNeverFails ==
    pc = "done" =>
        /\ parsed.outcome \in {"some", "none"}
        /\ parsed.outcome = "some" <=>
                \/ node.kind \in DeclKinds /\ HasField(node, "name")
                \/ node.kind = "assignment" /\ HasField(node, "left")
        /\ (ParsedDecl /\ ~HasField(node, "parameters")) =>
                parsed.item.params = <<>>
        /\ (ParsedDecl /\ ~HasMarker(DesignatedNode(node))) =>
                parsed.item.flags = 0

C7_Witness ==
    /\ pc = "done"
    /\ parsed.outcome = "some"
    /\ node.kind = "function_declaration"
    /\ ~HasField(node, "parameters")
    /\ HasMarker(DesignatedNode(node))
    /\ parsed.item.flags = 3

(* ---------------------------------------------------------------------- *)
(* C8: Param::parse_declaration returns one parameter per identifier child *)
(* and per assignment child with both a "left" and a "right" field, in the *)
(* children's order, and nothing for any other child; a defaulted          *)
(* parameter carries the right-hand text and the right-hand node's range.  *)
(* ---------------------------------------------------------------------- *)
FieldChild(n, f) ==
    n.children[CHOOSE i \in 1..Len(n.children) :
                  /\ n.children[i].field = f
                  /\ \A j \in 1..(i - 1) : n.children[j].field # f]

YieldsParam(child) ==
    \/ child.kind = "identifier"
    \/ child.kind = "assignment" /\ HasField(child, "left") /\ HasField(child, "right")

ExpectedParam(child) ==
    IF child.kind = "identifier"
    THEN [name |-> child.text, default |-> None, range |-> child.range]
    ELSE [name |-> FieldChild(child, "left").text,
          default |-> Some(FieldChild(child, "right").text),
          range |-> FieldChild(child, "right").range]

C8_ParamsOfChildren ==
    (ParsedDecl /\ HasField(node, "parameters")) =>
        LET cs == FieldChild(node, "parameters").children
            yielding == {i \in 1..Len(cs) : YieldsParam(cs[i])}
            rank(i) == Cardinality({j \in yielding : j <= i})
            ps == parsed.item.params
        IN  /\ Len(ps) = Cardinality(yielding)
            /\ \A i \in yielding : ps[rank(i)] = ExpectedParam(cs[i])

C8_Witness ==
    /\ ParsedDecl
    /\ HasField(node, "parameters")
    /\ FieldChild(node, "parameters").children = <<PSpecial, PAssign, PIdent>>
    /\ Len(parsed.item.params) = 2
    /\ parsed.item.params[1].range = 23

(* ---------------------------------------------------------------------- *)
(* C9: Param::make_snippet numbers the surviving parameters 1..K in list   *)
(* order and joins their entries with ", "; an entry is "name = default"   *)
(* when "ignore defaults" is false and the parameter has a default, else   *)
(* "${index:name}" when ignore_name is set, else "name = ${index:name}".   *)
(* ---------------------------------------------------------------------- *)
C9_Entry(i, p, ignore_name, c) ==
    IF ~c.ignore_default /\ IsSome(p.default) THEN PlainEntry(p)
    ELSE IF ignore_name THEN Placeholder(i, p.name)
    ELSE NamedEntry(i, p)

C9_NumberedEntries ==
    \A c \in Cli :
        (CalledWith("make_snippet", c) /\ IsCallable(item)) =>
            LET surviving == SelectSeq(item.params,
                                LAMBDA p : IsNone(p.default) \/ ~c.ignore_default)
                ignore_name == (item.flags \div 2) % 2 = 1
            IN  ArgsOf(last.ret, item.name) =
                    Join([i \in 1..Len(surviving) |->
                            C9_Entry(i, surviving[i], ignore_name, c)],
                         <<",", " ">>)

C9_Witness ==
    /\ CalledWith("make_snippet", IgnoreDefault(TRUE))
    /\ item.kind = "Function"
    /\ item.flags = 0
    /\ item.params = <<ParamB5, ParamC>>
    /\ ArgsOf(last.ret, item.name) = NamedEntry(1, ParamC)

(* ---------------------------------------------------------------------- *)
(* C10: get_snippet leaves label and hover unchanged, get_label leaves     *)
(* snippet and hover unchanged, get_hover leaves snippet and label         *)
(* unchanged, and all three leave name, kind, range, url, is_builtin and   *)
(* doc unchanged.                                                          *)
(* ---------------------------------------------------------------------- *)
SameData(a, b) ==
    /\ a.name = b.name /\ a.kind = b.kind /\ a.flags = b.flags
    /\ a.params = b.params /\ a.comp = b.comp /\ a.range = b.range
    /\ a.url = b.url /\ a.is_builtin = b.is_builtin /\ a.doc = b.doc

C10_AccessorFrame ==
    [][ /\ last'.op = "get_snippet" =>
            item'.label = item.label /\ item'.hover = item.hover
        /\ last'.op = "get_label" =>
            item'.snippet = item.snippet /\ item'.hover = item.hover
        /\ last'.op = "get_hover" =>
            item'.snippet = item.snippet /\ item'.label = item.label
        /\ last'.op \in {"get_snippet", "get_label", "get_hover"} =>
            SameData(item', item) ]_vars

C10_Witness ==
    /\ Called("get_hover")
    /\ ~last.again
    /\ IsSome(item.hover)
    /\ IsNone(item.label)
    /\ IsNone(item.snippet)
    /\ IsSome(item.doc)

====
